---- MODULE Spec2Model ----
(***************************************************************************)
(* The ACI transport layer of ble-optiboot (hal_aci_tl): the REQN/RDYN     *)
(* handshake, the length-prefixed SPI exchange and the command and event   *)
(* queues, as a state machine in which every call runs to completion       *)
(* (one execution context).                                                *)
(*                                                                         *)
(* A packet (hal_aci_data_t) is the record [len, id]: len is buffer[0],    *)
(* the length byte, and id names the rest of its content (status byte and  *)
(* payload), so that two packets can be told apart.  Line levels are the   *)
(* port bits: 0 is low (asserted, both lines are active-low), 1 is high.   *)
(*                                                                         *)
(* aci_queue.h/aci_queue.c are not among the sources; the queue is         *)
(* modelled from its documented contract as a bounded FIFO sequence.       *)
(*                                                                         *)
(* m_aci_event_check is static and the sources call it from                *)
(* hal_aci_tl_event_get only; hal_aci_tl.h documents the RDYN line as an   *)
(* interrupt source that runs the same transfer, so the model also offers  *)
(* the check as a step of its own (Poll).                                  *)
(***************************************************************************)
EXTENDS Naturals, Sequences, FiniteSets

\* ------------------------------------------------------------------ bounds

\* Capacity of each queue (ACI_QUEUE_SIZE of aci_queue.h, not among the sources).
ACI_QUEUE_SIZE == 3

\* Commands accepted by hal_aci_tl_send between two calls of hal_aci_tl_init.
MaxSends == 3

\* Events the peer declares between two calls of hal_aci_tl_init: more than
\* the event queue holds, so that an event can arrive while it is full.

MaxEvents == 4

\* ---------------------------------------------------------------- constants

HAL_ACI_MAX_LENGTH == 31

\* The largest uint8_t.
UINT8_MAX == 255

\* Length bytes the application puts in a command: empty, full, one too long.
SendLengths == {0, HAL_ACI_MAX_LENGTH, HAL_ACI_MAX_LENGTH + 1}

\* Length bytes the peer declares in an exchange (a uint8_t): none, full,
\* one too long.
PeerLengths == {0, HAL_ACI_MAX_LENGTH, HAL_ACI_MAX_LENGTH + 1}

VARIABLES
  aci_tx_q,   \* the command queue, head first
  aci_rx_q,   \* the event queue, head first
  reqn,       \* PORTB bit PB2, the request line the host drives
  rdyn,       \* PIND bit PD3, the ready line the peer drives
  halted,     \* the program spins in the while(1) of m_aci_event_check
  sent,       \* history: packets hal_aci_tl_send accepted since init
  xfered,     \* history: dequeued commands handed to m_aci_spi_transfer
  evts,       \* history: packets received with a non-zero declared length
  got,        \* history: packets hal_aci_tl_event_get returned
  last,       \* the latest call: what it was given and what it returned
  xf,         \* one m_aci_spi_transfer followed byte by byte
  rst         \* one hal_aci_tl_pin_reset followed statement by statement

vars == <<aci_tx_q, aci_rx_q, reqn, rdyn, halted, sent, xfered, evts, got, last,
          xf, rst>>

\* ------------------------------------------------------------------ queue

aci_queue_is_empty(q) == Len(q) = 0

aci_queue_is_full(q) == Len(q) = ACI_QUEUE_SIZE

aci_queue_enqueue(q, p) ==
  IF aci_queue_is_full(q)
  THEN [ok |-> FALSE, q |-> q]
  ELSE [ok |-> TRUE, q |-> Append(q, p)]

\* data is what the caller's buffer holds afterwards: `old` when nothing was
\* copied out.
aci_queue_dequeue(q, old) ==
  IF aci_queue_is_empty(q)
  THEN [ok |-> FALSE, q |-> q, data |-> old]
  ELSE [ok |-> TRUE, q |-> Tail(q), data |-> Head(q)]

\* ------------------------------------------------------------------ lines

m_aci_reqn_disable == 1

m_aci_reqn_enable == 0

\* The packet with status_byte = 0 and buffer[0] = 0 sent when nothing is queued.
EmptyPacket == [len |-> 0, id |-> 0]

\* ------------------------------------------------------------- link driver

\* max_bytes computed without allowing for the command byte already sent.
spi_max_bytes_no_header(l1, l2) ==
  LET wanted == IF l1 = 0
                THEN l2
                ELSE IF l2 > l1 THEN l2 ELSE l1
  IN  IF wanted > HAL_ACI_MAX_LENGTH THEN HAL_ACI_MAX_LENGTH ELSE wanted

\* max_bytes of m_aci_spi_transfer: the byte pairs exchanged after the two
\* header bytes, for outgoing length byte l1 and declared incoming length l2.
spi_max_bytes(l1, l2) ==
  LET wanted == IF l1 = 0
                THEN l2
                ELSE IF l2 > l1 - 1 THEN l2 ELSE l1 - 1
  IN  IF wanted > HAL_ACI_MAX_LENGTH THEN HAL_ACI_MAX_LENGTH ELSE wanted

\* m_aci_spi_transfer without its closing m_aci_reqn_disable.
m_aci_spi_transfer_no_disable(data_to_send, peer) ==
  LET max_bytes == spi_max_bytes(data_to_send.len, peer.len)
  IN  [received_data |-> [len |-> peer.len, id |-> peer.id],
       max_bytes     |-> max_bytes,
       ret           |-> max_bytes > 0,
       reqn          |-> m_aci_reqn_enable]

\* One exchange.  peer is what the peer puts on the link: its length byte
\* and the rest of its packet.  received_data.buffer[0] is the length byte
\* as received; reqn is the request line when the function returns.
m_aci_spi_transfer(data_to_send, peer) ==
  LET max_bytes == spi_max_bytes(data_to_send.len, peer.len)
  IN  [received_data |-> [len |-> peer.len, id |-> peer.id],
       max_bytes     |-> max_bytes,
       ret           |-> max_bytes > 0,
       reqn          |-> m_aci_reqn_disable]

\* The same exchange byte by byte.  buf is the memory read through
\* data_to_send->buffer, by index; l2 is the length byte the peer answers.
\* rd lists the indices of data_to_send->buffer read, wr the indices of
\* received_data->buffer written and bytes the bytes put on the link, all in
\* program order; pairs counts the passes of the loop.
RECURSIVE spi_loop(_, _, _, _, _)
spi_loop(buf, byte_cnt, byte_sent_cnt, max_bytes, acc) ==
  IF byte_cnt < max_bytes
  THEN spi_loop(buf, byte_cnt + 1, byte_sent_cnt + 1, max_bytes,
                [rd    |-> Append(acc.rd, byte_sent_cnt),
                 wr    |-> Append(acc.wr, byte_cnt + 1),
                 bytes |-> Append(acc.bytes, buf[byte_sent_cnt]),
                 pairs |-> acc.pairs + 1])
  ELSE acc

m_aci_spi_transfer_bytes(buf, l2) ==
  LET max_bytes == spi_max_bytes(buf[0], l2)
      header    == [rd    |-> <<0, 1>>,
                    wr    |-> <<0>>,
                    bytes |-> <<buf[0], buf[1]>>,
                    pairs |-> 0]
      done      == spi_loop(buf, 0, 2, max_bytes, header)
  IN  [rd |-> done.rd, wr |-> done.wr, bytes |-> done.bytes,
       pairs |-> done.pairs, ret |-> max_bytes > 0,
       reqn |-> m_aci_reqn_disable]

\* ------------------------------------------------------- m_aci_event_check

\* The check without its test for room.
event_check_no_room_never(rx) == FALSE

\* "No room to store incoming messages": the check returns at once.
event_check_no_room(rx) == aci_queue_is_full(rx)

\* The request line is left alone while the peer is not ready.
event_check_not_ready_never(tx, line) == line

\* The ready line is high: the request line is (re)asserted when commands wait.
event_check_not_ready(tx, line) ==
  IF ~aci_queue_is_empty(tx) THEN m_aci_reqn_enable ELSE line

\* The command is read and left at the head of the queue.
event_check_dequeue_peek(tx) ==
  LET d == aci_queue_dequeue(tx, EmptyPacket)
  IN  [ok |-> d.ok, q |-> tx,
       data_to_send |-> IF d.ok THEN d.data ELSE EmptyPacket]

\* "Receive from queue": the next command, or the empty packet.
event_check_dequeue(tx) ==
  LET d == aci_queue_dequeue(tx, EmptyPacket)
  IN  [ok |-> d.ok, q |-> d.q,
       data_to_send |-> IF d.ok THEN d.data ELSE EmptyPacket]

\* No new transfer is requested after the exchange.
event_check_rerequest_never(tx, rx, line) == line

\* After the exchange: request the next transfer when commands wait and the
\* reply can be stored.
event_check_rerequest(tx, rx, line) ==
  IF ~aci_queue_is_full(rx) /\ ~aci_queue_is_empty(tx)
  THEN m_aci_reqn_enable
  ELSE line

\* The packet is stored whenever the exchange returned true.
event_check_store_on_ret(rx, xfer) ==
  IF xfer.ret
  THEN LET e == aci_queue_enqueue(rx, xfer.received_data)
       IN  [q |-> e.q, stored |-> e.ok, halted |-> ~e.ok]
  ELSE [q |-> rx, stored |-> FALSE, halted |-> FALSE]

\* "Check if we received data": store the packet, or spin when it does not fit.
event_check_store(rx, xfer) ==
  IF xfer.received_data.len > 0
  THEN LET e == aci_queue_enqueue(rx, xfer.received_data)
       IN  [q |-> e.q, stored |-> e.ok, halted |-> ~e.ok]
  ELSE [q |-> rx, stored |-> FALSE, halted |-> FALSE]

\* The check with the ready line read before the test for room.
m_aci_event_check_ready_first(m, ready, peer) ==
  LET idle == [m |-> m, xfer |-> FALSE, xreqn |-> m.reqn, out |-> EmptyPacket,
               deq |-> FALSE, stored |-> FALSE]
  IN
  IF ready # 0
  THEN [idle EXCEPT !.m.reqn = event_check_not_ready(m.tx, m.reqn)]
  ELSE IF event_check_no_room(m.rx) THEN idle
  ELSE
    LET d    == event_check_dequeue(m.tx)
        x    == m_aci_spi_transfer(d.data_to_send, peer)
        line == event_check_rerequest(d.q, m.rx, x.reqn)
        s    == event_check_store(m.rx, x)
    IN  [m      |-> [tx |-> d.q, rx |-> s.q, reqn |-> line, halted |-> s.halted],
         xfer   |-> TRUE,
         xreqn  |-> x.reqn,
         out    |-> d.data_to_send,
         deq    |-> d.ok,
         stored |-> s.stored]

\* The check returning without an exchange when no command waits.
m_aci_event_check_skip_when_idle(m, ready, peer) ==
  LET idle == [m |-> m, xfer |-> FALSE, xreqn |-> m.reqn, out |-> EmptyPacket,
               deq |-> FALSE, stored |-> FALSE]
  IN
  IF event_check_no_room(m.rx) THEN idle
  ELSE IF ready # 0
  THEN [idle EXCEPT !.m.reqn = event_check_not_ready(m.tx, m.reqn)]
  ELSE IF aci_queue_is_empty(m.tx) THEN idle
  ELSE
    LET d    == event_check_dequeue(m.tx)
        x    == m_aci_spi_transfer(d.data_to_send, peer)
        line == event_check_rerequest(d.q, m.rx, x.reqn)
        s    == event_check_store(m.rx, x)
    IN  [m      |-> [tx |-> d.q, rx |-> s.q, reqn |-> line, halted |-> s.halted],
         xfer   |-> TRUE,
         xreqn  |-> x.reqn,
         out    |-> d.data_to_send,
         deq    |-> d.ok,
         stored |-> s.stored]

\* The whole check on machine state m = [tx, rx, reqn, halted], with the
\* ready line at level ready and the peer answering an exchange with peer.
\* Besides the new machine state it reports whether an exchange ran (xfer),
\* the request line when the exchange returned (xreqn), the packet handed to
\* it (out), whether that packet came off the queue (deq) and whether a
\* received packet was stored (stored).
m_aci_event_check(m, ready, peer) ==
  LET idle == [m |-> m, xfer |-> FALSE, xreqn |-> m.reqn, out |-> EmptyPacket,
               deq |-> FALSE, stored |-> FALSE]
  IN
  IF event_check_no_room(m.rx) THEN idle
  ELSE IF ready # 0
  THEN [idle EXCEPT !.m.reqn = event_check_not_ready(m.tx, m.reqn)]
  ELSE
    LET d    == event_check_dequeue(m.tx)
        x    == m_aci_spi_transfer(d.data_to_send, peer)
        line == event_check_rerequest(d.q, m.rx, x.reqn)
        s    == event_check_store(m.rx, x)
    IN  [m      |-> [tx |-> d.q, rx |-> s.q, reqn |-> line, halted |-> s.halted],
         xfer   |-> TRUE,
         xreqn  |-> x.reqn,
         out    |-> d.data_to_send,
         deq    |-> d.ok,
         stored |-> s.stored]

\* ------------------------------------------------------------- public API

\* hal_aci_tl_init: both queues are cleared; m_spi_init configures the pins
\* and the SPI unit and writes neither PB2 nor the queues.
m_aci_q_flush(m) == [m EXCEPT !.tx = <<>>, !.rx = <<>>]

hal_aci_tl_init(m) == m_aci_q_flush(m)

\* The length test one byte too generous.
send_too_long_off_by_one(length) == length > HAL_ACI_MAX_LENGTH + 1

\* The length test of hal_aci_tl_send.
send_too_long(length) == length > HAL_ACI_MAX_LENGTH

\* The request line lowered without looking at the event queue.
send_request_unconditional(rx, line) == m_aci_reqn_enable

\* The request line after a successful enqueue.
send_request(rx, line) ==
  IF ~aci_queue_is_full(rx) THEN m_aci_reqn_enable ELSE line

\* The request line lowered whether or not the command was enqueued.
hal_aci_tl_send_always_requests(m, p_aci_cmd) ==
  IF send_too_long(p_aci_cmd.len)
  THEN [m |-> m, ret |-> FALSE]
  ELSE LET e == aci_queue_enqueue(m.tx, p_aci_cmd)
       IN  [m |-> [m EXCEPT !.tx = e.q, !.reqn = send_request(m.rx, m.reqn)],
            ret |-> e.ok]

hal_aci_tl_send(m, p_aci_cmd) ==
  IF send_too_long(p_aci_cmd.len)
  THEN [m |-> m, ret |-> FALSE]
  ELSE LET e == aci_queue_enqueue(m.tx, p_aci_cmd)
       IN  IF e.ok
           THEN [m |-> [m EXCEPT !.tx = e.q, !.reqn = send_request(m.rx, m.reqn)],
                 ret |-> TRUE]
           ELSE [m |-> m, ret |-> FALSE]

\* The request line is left alone after a dequeue.
event_get_request_never(tx, rx, line) == line

\* The request line after a successful dequeue of an event.
event_get_request(tx, rx, line) ==
  IF ~aci_queue_is_full(rx) /\ ~aci_queue_is_empty(tx)
  THEN m_aci_reqn_enable
  ELSE line

\* The check is run when the event queue is full.
event_get_checks_when_full(rx) == aci_queue_is_full(rx)

\* hal_aci_tl_event_get runs the check first when the event queue has room.
event_get_checks(rx) == ~aci_queue_is_full(rx)

\* hal_aci_tl_event_get going straight to the event queue, without the check.
hal_aci_tl_event_get_unchecked(m, ready, peer) ==
  LET chk == [m |-> m, xfer |-> FALSE, xreqn |-> m.reqn,
              out |-> EmptyPacket, deq |-> FALSE, stored |-> FALSE]
      d   == aci_queue_dequeue(m.rx, EmptyPacket)
  IN  IF d.ok
      THEN [m    |-> [m EXCEPT !.rx = d.q,
                               !.reqn = event_get_request(m.tx, d.q, m.reqn)],
            ret  |-> TRUE,
            data |-> d.data,
            chk  |-> chk]
      ELSE [m |-> m, ret |-> FALSE, data |-> EmptyPacket, chk |-> chk]

\* chk is the report of the check the call runs first (none when the event
\* queue is full); data is *p_aci_data when the call returns true.
hal_aci_tl_event_get(m, ready, peer) ==
  LET chk == IF event_get_checks(m.rx)
             THEN m_aci_event_check(m, ready, peer)
             ELSE [m |-> m, xfer |-> FALSE, xreqn |-> m.reqn,
                   out |-> EmptyPacket, deq |-> FALSE, stored |-> FALSE]
      c   == chk.m
      d   == aci_queue_dequeue(c.rx, EmptyPacket)
  IN  IF c.halted
      THEN [m |-> c, ret |-> FALSE, data |-> EmptyPacket, chk |-> chk]
      ELSE IF d.ok
      THEN [m    |-> [c EXCEPT !.rx = d.q,
                               !.reqn = event_get_request(c.tx, d.q, c.reqn)],
            ret  |-> TRUE,
            data |-> d.data,
            chk  |-> chk]
      ELSE [m |-> c, ret |-> FALSE, data |-> EmptyPacket, chk |-> chk]

\* hal_aci_tl_pin_reset with the request line driven before the reset pulse.
pin_reset_program_reqn_first ==
  << <<"RESET_DIR", 1>>,
     <<"REQN", 1>>, <<"RESET", 1>>, <<"RESET", 0>>, <<"RESET", 1>>,
     <<"MISO", 0>>, <<"MOSI", 0>>, <<"SCK", 0>>,
     <<"DELAY", 30>> >>

\* The statements of hal_aci_tl_pin_reset in program order, each the line it
\* writes and the level: the direction bit of the reset pin (PD4), the reset
\* line, REQN (PB2), MISO (PB4), MOSI (PB3), SCK (PB5); the last one is
\* _delay_ms(30).
pin_reset_program ==
  << <<"RESET_DIR", 1>>,
     <<"RESET", 1>>, <<"RESET", 0>>, <<"RESET", 1>>,
     <<"REQN", 1>>, <<"MISO", 0>>, <<"MOSI", 0>>, <<"SCK", 0>>,
     <<"DELAY", 30>> >>

\* The request line after statement stmt.
pin_reset_reqn(stmt, line) == IF stmt[1] = "REQN" THEN stmt[2] ELSE line

\* The request line after the first n statements of the program.
RECURSIVE pin_reset_run(_, _)
pin_reset_run(n, line) ==
  IF n = 0 THEN line
  ELSE pin_reset_reqn(pin_reset_program[n], pin_reset_run(n - 1, line))

\* The whole call: it leaves REQN high and touches neither queue.
hal_aci_tl_pin_reset(m) ==
  [m EXCEPT !.reqn = pin_reset_run(Len(pin_reset_program), m.reqn)]

\* ------------------------------------------------------------ state machine

\* The machine state the functions above work on.
Machine == [tx |-> aci_tx_q, rx |-> aci_rx_q, reqn |-> reqn, halted |-> halted]

\* The record of a call: op names it; ret and pkt are a send's result and
\* argument, or a receive's result and the packet it returned; xfer tells
\* whether the call ran an exchange, xreqn the request line when that
\* exchange returned, out the packet handed to it and rcv what the peer
\* answered.
Call(op, ret, pkt, xfer, xreqn, out, rcv) ==
  [op |-> op, ret |-> ret, pkt |-> pkt, xfer |-> xfer, xreqn |-> xreqn,
   out |-> out, rcv |-> rcv]

NoExchange(op) == Call(op, FALSE, EmptyPacket, FALSE, 1, EmptyPacket, EmptyPacket)

\* The call record of a call that ran the check reporting r, the peer
\* answering peer when the check ran an exchange.
Checked(op, ret, pkt, r, peer) ==
  Call(op, ret, pkt, r.xfer, r.xreqn, r.out, IF r.xfer THEN peer ELSE EmptyPacket)

\* xf and rst while no transfer and no reset is followed.
NotFollowed == [pc |-> "idle"]

\* What the peer may answer in an exchange: a declared length and, for a
\* non-empty event, content not seen before.
PeerAnswers ==
  {[len |-> l, id |-> IF l = 0 THEN 0 ELSE Len(evts) + 1] :
     l \in {k \in PeerLengths : k > 0 => Len(evts) < MaxEvents}}

\* The histories after a check that reported r, the peer having answered peer.
Handed(r) == IF r.xfer /\ r.deq THEN Append(xfered, r.out) ELSE xfered

Declared(r, peer) == IF r.xfer /\ peer.len > 0 THEN Append(evts, peer) ELSE evts

Init ==
  /\ aci_tx_q = <<>>
  /\ aci_rx_q = <<>>
  /\ reqn \in {0, 1}
  /\ rdyn \in {0, 1}
  /\ halted = FALSE
  /\ sent = <<>>
  /\ xfered = <<>>
  /\ evts = <<>>
  /\ got = <<>>
  /\ last = NoExchange("init")
  /\ xf = NotFollowed
  /\ rst = NotFollowed

\* The application calls hal_aci_tl_init again.
InitCall ==
  /\ ~halted
  /\ LET m == hal_aci_tl_init(Machine)
     IN  /\ aci_tx_q' = m.tx
         /\ aci_rx_q' = m.rx
         /\ reqn' = m.reqn
  /\ sent' = <<>>
  /\ xfered' = <<>>
  /\ evts' = <<>>
  /\ got' = <<>>
  /\ last' = NoExchange("init")
  /\ UNCHANGED <<rdyn, halted, xf, rst>>

\* The application calls hal_aci_tl_send with a command of length byte len.
Send(len) ==
  /\ ~halted
  /\ LET p == [len |-> len, id |-> Len(sent) + 1]
         r == hal_aci_tl_send(Machine, p)
     IN  /\ r.ret => Len(sent) < MaxSends
         /\ aci_tx_q' = r.m.tx
         /\ aci_rx_q' = r.m.rx
         /\ reqn' = r.m.reqn
         /\ sent' = IF r.ret THEN Append(sent, p) ELSE sent
         /\ last' = Call("send", r.ret, p, FALSE, 1, EmptyPacket, EmptyPacket)
  /\ UNCHANGED <<rdyn, halted, xfered, evts, got, xf, rst>>

\* m_aci_event_check runs on its own (the RDYN interrupt of hal_aci_tl.h),
\* the peer answering an exchange with peer.
PollWith(peer) ==
  /\ ~halted
  /\ LET r == m_aci_event_check(Machine, rdyn, peer)
     IN  /\ aci_tx_q' = r.m.tx
         /\ aci_rx_q' = r.m.rx
         /\ reqn' = r.m.reqn
         /\ halted' = r.m.halted
         /\ xfered' = Handed(r)
         /\ evts' = Declared(r, peer)
         /\ last' = Checked("poll", FALSE, EmptyPacket, r, peer)
  /\ UNCHANGED <<rdyn, sent, got, xf, rst>>

Poll == \E peer \in PeerAnswers : PollWith(peer)

\* The application calls hal_aci_tl_event_get, the peer answering an
\* exchange with peer.
ReceiveWith(peer) ==
  /\ ~halted
  /\ \E r \in {hal_aci_tl_event_get(Machine, rdyn, peer)} :
         /\ aci_tx_q' = r.m.tx
         /\ aci_rx_q' = r.m.rx
         /\ reqn' = r.m.reqn
         /\ halted' = r.m.halted
         /\ xfered' = Handed(r.chk)
         /\ evts' = Declared(r.chk, peer)
         /\ got' = IF r.ret THEN Append(got, r.data) ELSE got
         /\ last' = Checked("receive", r.ret, r.data, r.chk, peer)
  /\ UNCHANGED <<rdyn, sent, xf, rst>>

Receive == \E peer \in PeerAnswers : ReceiveWith(peer)

\* The application calls hal_aci_tl_pin_reset.
PinReset ==
  /\ ~halted
  /\ reqn' = hal_aci_tl_pin_reset(Machine).reqn
  /\ last' = NoExchange("reset")
  /\ UNCHANGED <<aci_tx_q, aci_rx_q, rdyn, halted, sent, xfered, evts, got, xf, rst>>

\* The peer drives the ready line to the other level.
PeerReady ==
  /\ ~halted
  /\ rdyn' = 1 - rdyn
  /\ last' = NoExchange("rdyn")
  /\ UNCHANGED <<aci_tx_q, aci_rx_q, reqn, halted, sent, xfered, evts, got, xf, rst>>

SendAny == \E len \in SendLengths : Send(len)

Next == InitCall \/ SendAny \/ Poll \/ Receive \/ PinReset \/ PeerReady

Spec == Init /\ [][Next]_vars

\* ------------------------------------------------------------- progress

\* The peer as the nRF8001 drives RDYN: it may assert ready at any time, and
\* it withdraws ready only while the request line is high ("RDYN should
\* follow the REQN line").
PeerAsserts ==
  /\ ~halted
  /\ rdyn = 1
  /\ rdyn' = 0
  /\ last' = NoExchange("rdyn")
  /\ UNCHANGED <<aci_tx_q, aci_rx_q, reqn, halted, sent, xfered, evts, got, xf, rst>>

PeerReleases ==
  /\ ~halted
  /\ rdyn = 0
  /\ reqn = 1
  /\ rdyn' = 1
  /\ last' = NoExchange("rdyn")
  /\ UNCHANGED <<aci_tx_q, aci_rx_q, reqn, halted, sent, xfered, evts, got, xf, rst>>

\* The peer answers a request that stays asserted.
PeerAnswersRequest == reqn = 0 /\ PeerAsserts

\* Progress is followed with full commands and with a peer that declares
\* nothing or a full event.
LiveAnswers == {a \in PeerAnswers : a.len \in {0, HAL_ACI_MAX_LENGTH}}

LiveSend == Send(HAL_ACI_MAX_LENGTH)

LivePoll == \E peer \in LiveAnswers : PollWith(peer)

LiveReceive == \E peer \in LiveAnswers : ReceiveWith(peer)

\* Sends, receives and checks after the one-time init, without a reset.
NextLive == LiveSend \/ LivePoll \/ LiveReceive \/ PeerAsserts \/ PeerReleases

\* The application keeps calling hal_aci_tl_event_get, and the peer answers
\* a standing request.
SpecLive ==
  /\ Init
  /\ [][NextLive]_vars
  /\ WF_vars(LiveReceive)
  /\ WF_vars(PeerAnswersRequest)

\* ------------------------------------------------- one exchange, by bytes

\* Length bytes of the packet handed to the exchange, and of the peer.
XferL1 == 0..HAL_ACI_MAX_LENGTH

XferL2 == 0..UINT8_MAX

\* What the memory outside the packet's own bytes may hold: the command
\* queue hands back what the application left behind its packet, the empty
\* packet is an uninitialised local of which only status_byte and buffer[0]
\* are set, and index HAL_ACI_MAX_LENGTH + 1 lies behind the buffer.
StaleBytes == {0, UINT8_MAX}

\* The memory read through data_to_send->buffer for a packet of length byte
\* l1: the length, l1 bytes of the packet (here its index), then stale bytes.
OutBuffer(l1, stale) ==
  [i \in 0..(HAL_ACI_MAX_LENGTH + 1) |->
     IF i = 0 THEN l1 ELSE IF i <= l1 THEN i ELSE stale]

InitXfer ==
  /\ aci_tx_q = <<>>
  /\ aci_rx_q = <<>>
  /\ reqn = 1
  /\ rdyn = 0
  /\ halted = FALSE
  /\ sent = <<>>
  /\ xfered = <<>>
  /\ evts = <<>>
  /\ got = <<>>
  /\ last = NoExchange("init")
  /\ xf \in {[pc |-> "call", l1 |-> l1, l2 |-> l2, stale |-> b] :
               l1 \in XferL1, l2 \in XferL2, b \in StaleBytes}
  /\ rst = NotFollowed

\* m_aci_spi_transfer runs on the packet and the answer chosen at the start.
SpiTransfer ==
  /\ xf.pc = "call"
  /\ LET res == m_aci_spi_transfer_bytes(OutBuffer(xf.l1, xf.stale), xf.l2)
     IN  /\ xf' = [pc |-> "done", l1 |-> xf.l1, l2 |-> xf.l2,
                   stale |-> xf.stale, res |-> res]
         /\ reqn' = res.reqn
  /\ UNCHANGED <<aci_tx_q, aci_rx_q, rdyn, halted, sent, xfered, evts, got,
                 last, rst>>

SpecXfer == InitXfer /\ [][SpiTransfer]_vars

\* --------------------------------------------- one reset, by statements

\* A queue holding n packets.
Filled(n) == [i \in 1..n |-> [len |-> HAL_ACI_MAX_LENGTH, id |-> i]]

\* hal_aci_tl_pin_reset is called with the queues holding anything and the
\* lines at any level.
InitReset ==
  /\ aci_tx_q \in {Filled(n) : n \in 0..ACI_QUEUE_SIZE}
  /\ aci_rx_q \in {Filled(n) : n \in 0..ACI_QUEUE_SIZE}
  /\ reqn \in {0, 1}
  /\ rdyn \in {0, 1}
  /\ halted = FALSE
  /\ sent = aci_tx_q
  /\ xfered = <<>>
  /\ evts = aci_rx_q
  /\ got = <<>>
  /\ last = NoExchange("reset")
  /\ xf = NotFollowed
  /\ rst = [pc |-> "run", at |-> 1, log |-> <<>>, entry |-> Machine]

\* The next statement of hal_aci_tl_pin_reset runs; the call has returned
\* when the last one, the delay, is over.
ResetStep ==
  /\ rst.pc = "run"
  /\ LET stmt == pin_reset_program[rst.at]
     IN  /\ reqn' = pin_reset_reqn(stmt, reqn)
         /\ rst' = [rst EXCEPT !.log = Append(@, stmt),
                               !.at = @ + 1,
                               !.pc = IF rst.at = Len(pin_reset_program)
                                      THEN "done" ELSE "run"]
  /\ UNCHANGED <<aci_tx_q, aci_rx_q, rdyn, halted, sent, xfered, evts, got,
                 last, xf>>

SpecReset == InitReset /\ [][ResetStep]_vars

\* The same machine started with the request line high.
InitIdle == Init /\ reqn = 1

SpecIdle == InitIdle /\ [][Next]_vars

\* ------------------------------------------------------------------ claims

IsPrefix(s, t) == Len(s) <= Len(t) /\ SubSeq(t, 1, Len(s)) = s

Ids(s) == {s[i].id : i \in 1..Len(s)}

\* C1: the fatal halt of the check is never reached: a received packet always
\* fits the event queue, which had room when the check began and takes at
\* most one packet per check.
NoFatalHalt ==
  /\ halted = FALSE
  /\ Len(aci_rx_q) <= ACI_QUEUE_SIZE

\* A check stored a packet in the last free slot of the event queue.
NoFatalHaltWitness ==
  /\ last.op = "poll"
  /\ last.xfer
  /\ Len(aci_rx_q) = ACI_QUEUE_SIZE
  /\ ~halted

\* C2: between two inits, the commands handed to the exchange are a prefix of
\* the commands send accepted, each handed over once, and every accepted
\* command is either handed over or still in the command queue.
OutboundFifo ==
  /\ IsPrefix(xfered, sent)
  /\ Cardinality(Ids(xfered)) = Len(xfered)
  /\ sent = xfered \o aci_tx_q

\* Two commands were exchanged and another one waits.
OutboundFifoWitness ==
  /\ Len(xfered) >= 2
  /\ aci_tx_q # <<>>
  /\ last.op \in {"poll", "receive"}
  /\ last.xfer

\* C3: between two inits, the packets receive returned are a prefix of the
\* packets the peer declared with a non-zero length, and every such packet is
\* either returned already or still in the event queue.
InboundFifo ==
  /\ IsPrefix(got, evts)
  /\ evts = got \o aci_rx_q

\* Two events were returned and another one waits in the event queue.
InboundFifoWitness ==
  /\ Len(got) >= 2
  /\ aci_rx_q # <<>>
  /\ last.op = "receive"
  /\ last.ret

\* C4: a check that finds the event queue full runs no exchange and changes
\* neither the request line nor a queue, whatever the ready line.
BackPressure ==
  [][(last'.op = "poll" /\ aci_queue_is_full(aci_rx_q))
       => (~last'.xfer /\ UNCHANGED <<reqn, aci_tx_q, aci_rx_q>>)]_vars

\* A check ran with the event queue full, the ready line asserted and a
\* command waiting, and the request line is still high.
BackPressureWitness ==
  /\ last.op = "poll"
  /\ ~last.xfer
  /\ aci_queue_is_full(aci_rx_q)
  /\ rdyn = 0
  /\ aci_tx_q # <<>>
  /\ reqn = 1

\* C5: send of a packet longer than HAL_ACI_MAX_LENGTH returns false and
\* changes neither queue nor the request line.
SendTooLong ==
  [][(last'.op = "send" /\ last'.pkt.len > HAL_ACI_MAX_LENGTH)
       => (~last'.ret /\ UNCHANGED <<aci_tx_q, aci_rx_q, reqn>>)]_vars

\* A too long packet was refused while the command queue had room.
SendTooLongWitness ==
  /\ last.op = "send"
  /\ last.pkt.len > HAL_ACI_MAX_LENGTH
  /\ ~last.ret
  /\ ~aci_queue_is_full(aci_tx_q)

\* C6: send on a full command queue returns false and changes neither the
\* command queue nor the request line.
SendQueueFull ==
  [][(last'.op = "send" /\ aci_queue_is_full(aci_tx_q))
       => (~last'.ret /\ UNCHANGED <<aci_tx_q, aci_rx_q, reqn>>)]_vars

\* A well-formed packet was refused by the full command queue while the
\* event queue had room, and the request line is still high.
SendQueueFullWitness ==
  /\ last.op = "send"
  /\ last.pkt.len <= HAL_ACI_MAX_LENGTH
  /\ ~last.ret
  /\ aci_queue_is_full(aci_tx_q)
  /\ ~aci_queue_is_full(aci_rx_q)
  /\ reqn = 1

\* C7: a send that returns true leaves the request line low when the event
\* queue has room, and as it was when the event queue is full.
SendRequests ==
  [][(last'.op = "send" /\ last'.ret)
       => IF ~aci_queue_is_full(aci_rx_q) THEN reqn' = 0 ELSE reqn' = reqn]_vars

\* A send was accepted with the event queue full and the request line high.
SendRequestsWitness ==
  /\ last.op = "send"
  /\ last.ret
  /\ aci_queue_is_full(aci_rx_q)
  /\ reqn = 1

\* C8: every packet in either queue, and every packet receive returns, has a
\* length byte of at most HAL_ACI_MAX_LENGTH.
PacketLengthInv ==
  /\ \A i \in 1..Len(aci_tx_q) : aci_tx_q[i].len <= HAL_ACI_MAX_LENGTH
  /\ \A i \in 1..Len(aci_rx_q) : aci_rx_q[i].len <= HAL_ACI_MAX_LENGTH
  /\ (last.op = "receive" /\ last.ret) => last.pkt.len <= HAL_ACI_MAX_LENGTH

\* C9: when a check that ran an exchange returns, the request line is low if
\* commands still wait (the event queue had room when the check looked, before
\* the received packet was stored), and high if the command queue is empty.
Pipelining ==
  [][(last'.op = "poll" /\ last'.xfer)
       => /\ (aci_tx_q' # <<>> /\ ~aci_queue_is_full(aci_rx_q)) => reqn' = 0
          /\ aci_tx_q' = <<>> => reqn' = 1]_vars

\* Three commands were queued and the first check has exchanged one of them:
\* two wait and the request line is low.
PipeliningWitness ==
  /\ last.op = "poll"
  /\ last.xfer
  /\ Len(xfered) = 1
  /\ Len(aci_tx_q) = 2
  /\ reqn = 0

\* C10: when an exchange returns, the request line is high.
ExchangeDeasserts == last.xfer => last.xreqn = 1

\* An exchange ran, and the check then lowered the request line again.
ExchangeDeassertsWitness ==
  /\ last.op = "poll"
  /\ last.xfer
  /\ last.xreqn = 1
  /\ reqn = 0

\* C11: a receive that returns a packet while commands wait leaves the
\* request line low; when the event queue was full before the call, the call
\* runs no check and no exchange.
ReceiveUnblocks ==
  [][(last'.op = "receive" /\ last'.ret)
       => /\ aci_tx_q' # <<>> => reqn' = 0
          /\ aci_queue_is_full(aci_rx_q)
               => (~last'.xfer /\ aci_tx_q' = aci_tx_q
                   /\ xfered' = xfered /\ evts' = evts)]_vars

\* A receive took a packet off the full event queue without an exchange,
\* although the ready line is asserted; commands wait and the request line
\* is low.
ReceiveUnblocksWitness ==
  /\ last.op = "receive"
  /\ last.ret
  /\ ~last.xfer
  /\ rdyn = 0
  /\ Len(aci_rx_q) = ACI_QUEUE_SIZE - 1
  /\ aci_tx_q # <<>>
  /\ reqn = 0

\* C12: a check that finds the ready line asserted, room in the event queue
\* and no command waiting runs an exchange with the empty packet, leaves the
\* command queue empty, and stores the received packet if and only if the
\* peer declared a non-zero length.
PollDrains ==
  [][(last'.op = "poll" /\ rdyn = 0 /\ ~aci_queue_is_full(aci_rx_q)
        /\ aci_tx_q = <<>>)
       => /\ last'.xfer
          /\ last'.out = EmptyPacket
          /\ xfered' = xfered
          /\ aci_tx_q' = <<>>
          /\ aci_rx_q' = IF last'.rcv.len > 0
                         THEN Append(aci_rx_q, last'.rcv)
                         ELSE aci_rx_q]_vars

\* A check with nothing to send stored an event of the peer.
PollDrainsWitness ==
  /\ last.op = "poll"
  /\ last.xfer
  /\ last.out = EmptyPacket
  /\ sent = <<>>
  /\ last.rcv.len > 0
  /\ aci_rx_q # <<>>
  /\ aci_rx_q[Len(aci_rx_q)] = last.rcv

\* C13: a check that finds room in the event queue and the ready line high
\* runs no exchange and changes neither queue; it lowers the request line
\* when commands wait and leaves it alone otherwise.
PollNotReady ==
  [][(last'.op = "poll" /\ rdyn # 0 /\ ~aci_queue_is_full(aci_rx_q))
       => /\ ~last'.xfer
          /\ UNCHANGED <<aci_tx_q, aci_rx_q, xfered, evts>>
          /\ reqn' = IF aci_tx_q # <<>> THEN 0 ELSE reqn]_vars

\* A check found the peer not ready with a command waiting while the event
\* queue had room: the request line is low.
PollNotReadyWitness ==
  /\ last.op = "poll"
  /\ ~last.xfer
  /\ rdyn = 1
  /\ ~aci_queue_is_full(aci_rx_q)
  /\ aci_tx_q # <<>>
  /\ reqn = 0

\* C16 as claimed: a send or a receive made while the ready line is asserted
\* and the event queue has room runs an exchange.
EveryEntryPolls ==
  [][(last'.op \in {"send", "receive"} /\ rdyn = 0
        /\ ~aci_queue_is_full(aci_rx_q))
       => last'.xfer]_vars

\* C16 as amended: a receive made while the ready line is asserted and the
\* event queue has room runs an exchange; a send never runs one: it leaves
\* the event queue alone and at most appends its packet to the command queue.
OnlyReceivePolls ==
  [][/\ (last'.op = "receive" /\ rdyn = 0 /\ ~aci_queue_is_full(aci_rx_q))
          => last'.xfer
     /\ last'.op = "send"
          => /\ ~last'.xfer
             /\ UNCHANGED <<aci_rx_q, xfered, evts>>
             /\ aci_tx_q' = IF last'.ret THEN Append(aci_tx_q, last'.pkt)
                            ELSE aci_tx_q]_vars

\* A receive ran an exchange and returned the packet it had just received,
\* handing over a waiting command on the way.
OnlyReceivePollsWitness ==
  /\ last.op = "receive"
  /\ last.xfer
  /\ last.ret
  /\ last.pkt = last.rcv
  /\ last.out # EmptyPacket
  /\ rdyn = 0

\* C19: started with the request line high, after a send, a receive or a
\* check has returned the request line is low only if the event queue has
\* room.
NoRequestWithoutRoom ==
  (last.op \in {"send", "receive", "poll"} /\ reqn = 0)
    => ~aci_queue_is_full(aci_rx_q)

Min(a, b) == IF a < b THEN a ELSE b

Max(a, b) == IF a > b THEN a ELSE b

\* C14: after the two header bytes the exchange passes
\* min(MAX_LENGTH, L2) byte pairs when L1 = 0 and
\* min(MAX_LENGTH, max(L2, L1 - 1)) otherwise, and returns true exactly when
\* that number is not 0.
ExchangeByteCount ==
  xf.pc = "done"
    => /\ xf.res.pairs = IF xf.l1 = 0
                         THEN Min(HAL_ACI_MAX_LENGTH, xf.l2)
                         ELSE Min(HAL_ACI_MAX_LENGTH, Max(xf.l2, xf.l1 - 1))
       /\ Len(xf.res.bytes) = xf.res.pairs + 2
       /\ xf.res.ret = (xf.res.pairs > 0)

\* A full command met a peer declaring nothing: 30 byte pairs follow the
\* header and the exchange returns true.
ExchangeByteCountWitness ==
  /\ xf.pc = "done"
  /\ xf.l1 = HAL_ACI_MAX_LENGTH
  /\ xf.l2 = 0
  /\ xf.res.pairs = HAL_ACI_MAX_LENGTH - 1
  /\ xf.res.ret

\* C15: when the peer's declared length makes the exchange longer than the
\* outgoing packet, every byte put on the link from behind the packet's own
\* length + 1 bytes is zero.
ZeroPadding ==
  (xf.pc = "done" /\ xf.l2 > (IF xf.l1 = 0 THEN 0 ELSE xf.l1 - 1))
    => \A k \in 1..Len(xf.res.bytes) :
         xf.res.rd[k] > xf.l1 => xf.res.bytes[k] = 0

\* C20: every index used to read the outgoing buffer and to write the
\* incoming buffer lies in 0..MAX_LENGTH.
BufferBounds ==
  xf.pc = "done"
    => /\ \A k \in 1..Len(xf.res.rd) : xf.res.rd[k] \in 0..HAL_ACI_MAX_LENGTH
       /\ \A k \in 1..Len(xf.res.wr) : xf.res.wr[k] \in 0..HAL_ACI_MAX_LENGTH

\* The levels written to line, in order, and the place of the first write
\* to it (0 when there is none) in a log of line writes.
Levels(log, line) ==
  LET w == SelectSeq(log, LAMBDA x : x[1] = line)
  IN  [k \in 1..Len(w) |-> w[k][2]]

FirstWrite(log, line) ==
  IF \E k \in 1..Len(log) : log[k][1] = line
  THEN CHOOSE k \in 1..Len(log) :
         /\ log[k][1] = line
         /\ \A j \in 1..(k - 1) : log[j][1] # line
  ELSE 0

LastWrite(log, line) ==
  IF \E k \in 1..Len(log) : log[k][1] = line
  THEN CHOOSE k \in 1..Len(log) :
         /\ log[k][1] = line
         /\ \A j \in (k + 1)..Len(log) : log[j][1] # line
  ELSE 0

\* C18: the reset drives the reset line high, low, high; only then the
\* request line high and the clock and data lines low; only then it waits
\* the settle delay and returns.  Neither queue changes, and on return the
\* request line is high whatever the queues hold.
ResetSequence ==
  rst.pc \in {"run", "done"}
    => LET log == rst.log
           idle == {"REQN", "MOSI", "SCK"}
       IN  /\ IsPrefix(Levels(log, "RESET"), <<1, 0, 1>>)
           /\ \A l \in idle :
                FirstWrite(log, l) # 0
                  => /\ Levels(log, "RESET") = <<1, 0, 1>>
                     /\ FirstWrite(log, l) > LastWrite(log, "RESET")
           /\ IsPrefix(Levels(log, "REQN"), <<1>>)
           /\ IsPrefix(Levels(log, "MOSI"), <<0>>)
           /\ IsPrefix(Levels(log, "SCK"), <<0>>)
           /\ FirstWrite(log, "DELAY") # 0
                => /\ FirstWrite(log, "DELAY") = Len(log)
                   /\ \A l \in idle : FirstWrite(log, l) # 0
           /\ aci_tx_q = rst.entry.tx
           /\ aci_rx_q = rst.entry.rx
           /\ rst.pc = "done"
                => (FirstWrite(log, "DELAY") # 0 /\ reqn = 1)

\* A reset called with the request line low, commands waiting and the event
\* queue full has returned: the request line is high.
ResetSequenceWitness ==
  /\ rst.pc = "done"
  /\ rst.entry.reqn = 0
  /\ aci_tx_q # <<>>
  /\ aci_queue_is_full(aci_rx_q)
  /\ reqn = 1

\* Some sequence of at most n runs of m_aci_event_check, at any level of the
\* ready line and with any answer of the peer, leaves the request line
\* asserted.
RECURSIVE PollsCanRequest(_, _)
PollsCanRequest(m, n) ==
  \/ m.reqn = 0
  \/ /\ n > 0
     /\ \E ready \in {0, 1}, peer \in LiveAnswers :
          PollsCanRequest(m_aci_event_check(m, ready, peer).m, n - 1)

\* The same with calls of hal_aci_tl_event_get as well.
RECURSIVE CallsCanRequest(_, _)
CallsCanRequest(m, n) ==
  \/ m.reqn = 0
  \/ /\ n > 0
     /\ \E ready \in {0, 1}, peer \in LiveAnswers :
          \/ CallsCanRequest(m_aci_event_check(m, ready, peer).m, n - 1)
          \/ CallsCanRequest(hal_aci_tl_event_get(m, ready, peer).m, n - 1)

\* C17 as stated, its last clause: in every reachable state with a command
\* queued, some sequence of polls asserts the request line.
PollsCanAlwaysRequest ==
  aci_tx_q # <<>> => PollsCanRequest(Machine, ACI_QUEUE_SIZE + 1)

\* C17: while the application keeps calling receive and the peer answers a
\* standing request, every command send accepted is eventually handed to an
\* exchange; and in every reachable state with a command queued, some
\* sequence of polls and receives asserts the request line.
Progress ==
  /\ \A k \in 1..MaxSends : (Len(sent) >= k) ~> (k \in Ids(xfered))
  /\ [](aci_tx_q # <<>> => CallsCanRequest(Machine, ACI_QUEUE_SIZE + 1))

\* Every command the bound allows was accepted and handed to an exchange,
\* and the peer declared every event the bound allows.
ProgressWitness ==
  /\ Len(sent) = MaxSends
  /\ MaxSends \in Ids(xfered)
  /\ aci_tx_q = <<>>
  /\ Len(evts) = MaxEvents

====
